---- MODULE Spec2Model ----
(***************************************************************************)
(* Layout-aware type conversion and value packing of the Triton GPU        *)
(* lowering pipeline:                                                      *)
(*   lib/Conversion/TritonGPUToLLVM/TypeConverter.cpp  (tensor -> LLVM)    *)
(*   lib/Dialect/Triton/IR/Ops.cpp                     (Triton -> GPU,     *)
(*                                                      conversion target) *)
(* Types, layouts and IR values are records tagged by the field k.  Every  *)
(* action is one call of one entry point: it draws the call's inputs,      *)
(* records them in arg, and leaves the result in res, the IR operations    *)
(* the rewriter created in ops and the emitted diagnostics in diags.       *)
(***************************************************************************)
EXTENDS Integers, Sequences, FiniteSets, TLC

VARIABLES pc, arg, res, ops, diags, status

vars == <<pc, arg, res, ops, diags, status>>

(***************************************************************************)
(* Bounds of the model.                                                    *)
(***************************************************************************)
MaxRank == 2
MaxExtent == 3
MaxSizePerThread == 2
MaxFields == 2
MaxVals == 3
MaxOperands == 1

(***************************************************************************)
(* Types.                                                                  *)
(***************************************************************************)
IntegerType(w) == [k |-> "int", fmt |-> "i", w |-> w]
FloatType(fmt, w) == [k |-> "float", fmt |-> fmt, w |-> w]
TTPtr(pointee, as) == [k |-> "ttptr", elt |-> pointee, as |-> as]
LLVMPtr(pointee, as) == [k |-> "llvmptr", elt |-> pointee, as |-> as]
Struct(body) == [k |-> "struct", body |-> body]
Tensor(shape, elt, enc) == [k |-> "tensor", shape |-> shape, elt |-> elt, enc |-> enc]
IndexType == [k |-> "index"]
NullType == [k |-> "nulltype"]

vec_ty(elemTy, n) == [k |-> "vec", n |-> n, elt |-> elemTy]

i1 == IntegerType(1)
i8 == IntegerType(8)
i16 == IntegerType(16)
i32 == IntegerType(32)
i64 == IntegerType(64)
f8E4M3FN == FloatType("f8E4M3FN", 8)
f8E5M2 == FloatType("f8E5M2", 8)
f16 == FloatType("f16", 16)
bf16 == FloatType("bf16", 16)
f32 == FloatType("f32", 32)
f64 == FloatType("f64", 64)

IntTypes == {i1, i8, i16, i32, i64}
FloatTypes == {f8E4M3FN, f8E5M2, f16, bf16, f32, f64}
ScalarTypes == IntTypes \cup FloatTypes

isIntOrIndexOrFloat(t) == t.k \in {"int", "index", "float"}
getIntOrFloatBitWidth(t) == t.w

(***************************************************************************)
(* Layouts (encodings).                                                    *)
(***************************************************************************)
NoEncoding == [k |-> "none"]
Blocked(spt, tpw, wpc, ord) ==
  [k |-> "blocked", sizePerThread |-> spt, threadsPerWarp |-> tpw,
   warpsPerCTA |-> wpc, order |-> ord]
Shared == [k |-> "shared"]
Mma(v) == [k |-> "mma", versionMajor |-> v]
DotOperand(i, parent) == [k |-> "dotop", opIdx |-> i, parent |-> parent]
Slice(d, parent) == [k |-> "slice", dim |-> d, parent |-> parent]

isVolta(mma) == mma.versionMajor = 1
isAmpere(mma) == mma.versionMajor = 2

RECURSIVE Prod(_)
Prod(s) == IF s = <<>> THEN 1 ELSE Head(s) * Prod(Tail(s))

Ceil(a, b) == (a + b - 1) \div b

Iota(n) == [i \in 1..n |-> i - 1]
Fill(n, v) == [i \in 1..n |-> v]

\* elements one thread holds for a tensor of this shape under this layout
RECURSIVE elemsPerThread(_, _)
elemsPerThread(layout, shape) ==
  CASE layout.k = "blocked" ->
         Prod([d \in 1..Len(shape) |->
                 Ceil(shape[d], layout.sizePerThread[d] * layout.threadsPerWarp[d]
                                  * layout.warpsPerCTA[d])
                 * layout.sizePerThread[d]])
    [] layout.k = "slice" ->
         LET p == layout.parent
             at(d) == IF d <= layout.dim THEN d ELSE d + 1
         IN  Prod([d \in 1..Len(shape) |->
                     Ceil(shape[d], p.sizePerThread[at(d)] * p.threadsPerWarp[at(d)]
                                      * p.warpsPerCTA[at(d)])
                     * p.sizePerThread[at(d)]])
    [] layout.k = "mma" -> IF isVolta(layout) THEN 2 ELSE 1
    [] layout.k = "dotop" ->
         IF layout.parent.k = "mma"
         THEN (IF isVolta(layout.parent) THEN 1 ELSE 2) + layout.opIdx
         ELSE 1
    [] OTHER -> 0

\* a tile that is only partly covered by a Blocked tensor is not counted
getElemsPerThread_Floor(type) ==
  IF type.enc.k = "blocked"
  THEN Prod([d \in 1..Len(type.shape) |->
               (type.shape[d] \div (type.enc.sizePerThread[d]
                                     * type.enc.threadsPerWarp[d]
                                     * type.enc.warpsPerCTA[d]))
               * type.enc.sizePerThread[d]])
  ELSE elemsPerThread(type.enc, type.shape)

getElemsPerThread(type) == elemsPerThread(type.enc, type.shape)

(***************************************************************************)
(* TritonGPUToLLVMTypeConverter.                                           *)
(***************************************************************************)
RECURSIVE convertType(_)

convertTritonPointerType(type) ==
  LLVMPtr(convertType(type.elt), type.as)

\* getElementTypeForStruct with the sub-word limit, the width of the vector a
\* 16-bit element gets and the width of the Volta vector as parameters
ElementTypeForStructVariant(type, subWord, wide16, wideVolta) ==
  LET layout == type.enc
      elemTy == convertType(type.elt)
  IN  IF layout.k # "dotop" THEN elemTy
      ELSE IF layout.parent.k # "mma" THEN elemTy
      ELSE IF isAmpere(layout.parent)
           THEN LET bitwidth == getIntOrFloatBitWidth(elemTy)
                IN  IF elemTy.k = "int" /\ bitwidth < subWord THEN IntegerType(32)
                    ELSE CASE bitwidth = 32 -> vec_ty(elemTy, 1)
                           [] bitwidth = 16 -> vec_ty(elemTy, wide16)
                           [] bitwidth = 8 -> vec_ty(elemTy, 4)
                           [] OTHER -> NullType
           ELSE vec_ty(elemTy, wideVolta)

\* sub-word integers are not widened but vectorised like the floats
getElementTypeForStruct_NoSubWord(type) == ElementTypeForStructVariant(type, 0, 2, 2)
\* only integers below 16 bits are widened
getElementTypeForStruct_SubWord16(type) == ElementTypeForStructVariant(type, 16, 2, 2)
\* the 16-bit row of the vector table holds the 8-bit width
getElementTypeForStruct_Wide16(type) == ElementTypeForStructVariant(type, 32, 4, 2)
\* the Volta branch builds a 1-wide vector
getElementTypeForStruct_Volta1(type) == ElementTypeForStructVariant(type, 32, 2, 1)

getElementTypeForStruct(type) ==
  LET layout == type.enc
      elemTy == convertType(type.elt)
  IN  IF layout.k # "dotop" THEN elemTy
      ELSE IF layout.parent.k # "mma" THEN elemTy
      ELSE IF isAmpere(layout.parent)
           THEN LET bitwidth == getIntOrFloatBitWidth(elemTy)
                IN  IF elemTy.k = "int" /\ bitwidth < 32 THEN IntegerType(32)
                    ELSE CASE bitwidth = 32 -> vec_ty(elemTy, 1)
                           [] bitwidth = 16 -> vec_ty(elemTy, 2)
                           [] bitwidth = 8 -> vec_ty(elemTy, 4)
                           [] OTHER -> NullType
           ELSE vec_ty(elemTy, 2)

\* the offsets are pushed but the strides are not
convertTritonTensorType_NoStrides(type) ==
  LET eltType == getElementTypeForStruct(type)
  IN  IF type.enc.k = "shared"
      THEN LET rank == Len(type.shape)
           IN  Struct(<<LLVMPtr(eltType, 3)>> \o Fill(rank, IntegerType(32)))
      ELSE Struct(Fill(getElemsPerThread(type), eltType))

\* the aggregate holds a field per tensor element, not per element of a thread
convertTritonTensorType_AllElems(type) ==
  LET eltType == getElementTypeForStruct(type)
  IN  IF type.enc.k = "shared"
      THEN LET rank == Len(type.shape)
           IN  Struct(<<LLVMPtr(eltType, 3)>> \o Fill(rank * 2, IntegerType(32)))
      ELSE Struct(Fill(Prod(type.shape), eltType))

convertTritonTensorType(type) ==
  LET eltType == getElementTypeForStruct(type)
  IN  IF type.enc.k = "shared"
      THEN LET rank == Len(type.shape)
           IN  Struct(<<LLVMPtr(eltType, 3)>> \o Fill(rank * 2, IntegerType(32)))
      ELSE Struct(Fill(getElemsPerThread(type), eltType))

convertType(type) ==
  CASE type.k = "ttptr" -> convertTritonPointerType(type)
    [] type.k = "tensor" -> convertTritonTensorType(type)
    [] type.k = "float" /\ type.fmt = "f8E4M3FN" -> IntegerType(8)
    [] type.k = "float" /\ type.fmt = "f8E5M2" -> IntegerType(8)
    [] type.k = "float" /\ type.fmt = "bf16" -> IntegerType(16)
    [] OTHER -> type

(***************************************************************************)
(* IR values.  A value is what it denotes: a named SSA value of a type, or  *)
(* an aggregate with the values of its fields; NullValue is the null Value. *)
(***************************************************************************)
Val(ty, name) == [k |-> "val", ty |-> ty, name |-> name]
Aggregate(ty, fields) == [k |-> "agg", ty |-> ty, fields |-> fields]
NullValue == [k |-> "null"]
Undef == [k |-> "undef"]
\* what a read through a dangling or null reference yields
Garbage == [k |-> "garbage"]

Op(name, idx, val) == [op |-> name, idx |-> idx, val |-> val]

\* rewriter.create<LLVM::UndefOp>(loc, structType)
undef(structType) == Aggregate(structType, Fill(Len(structType.body), Undef))

\* the position is dropped and every value lands in field 0
insert_val_FirstField(structType, llvmStruct, v, idx) ==
  IF 0 < Len(llvmStruct.fields)
  THEN Aggregate(structType, [llvmStruct.fields EXCEPT ![1] = v])
  ELSE Aggregate(structType, llvmStruct.fields)

\* rewriter.create<LLVM::InsertValueOp>: field idx (from 0) replaced; an
\* index outside the aggregate names no field of it
insert_val(structType, llvmStruct, v, idx) ==
  IF idx < Len(llvmStruct.fields)
  THEN Aggregate(structType, [llvmStruct.fields EXCEPT ![idx + 1] = v])
  ELSE Aggregate(structType, llvmStruct.fields)

\* rewriter.create<LLVM::ExtractValueOp>: field idx (from 0)
extract_val(type, llvmStruct, idx) == llvmStruct.fields[idx + 1]

SizeMismatch(expected, got) ==
  [msg |-> "size mismatch when packing elements for LLVM struct",
   expected |-> expected, got |-> got]
NullInsert(v) ==
  [msg |-> "cannot insert null values into struct, but tried to insert",
   expected |-> NullType, got |-> v]
InvalidElementType(expected, got) ==
  [msg |-> "invalid element type in packLLEElements",
   expected |-> expected, got |-> got]

\* The outcomes of a step whose behaviour the language leaves open (a failed
\* assert, elementTypes[i] past the end, getType() of a null Value): the
\* process stops, or it goes on with a type that compares equal or different.
UBOutcomes == {"trap", "same", "differ"}

\* one iteration of the loop of packLLElements
packStep(st, structType, v, idx, ub) ==
  LET elementTypes == structType.body
      defined == v.k # "null" /\ idx < Len(elementTypes)
      d1 == IF v.k = "null" THEN st.diags \o <<NullInsert(v)>> ELSE st.diags
      vType == IF v.k = "null" THEN Garbage ELSE v.ty
      eType == IF idx < Len(elementTypes) THEN elementTypes[idx + 1] ELSE Garbage
      differs == IF defined THEN vType # eType ELSE ub = "differ"
      d2 == IF differs THEN d1 \o <<InvalidElementType(eType, vType)>> ELSE d1
  IN  IF st.status # "ok" THEN st
      ELSE IF ~defined /\ ub = "trap"
      THEN [st EXCEPT !.diags = d1, !.status = "aborted", !.res = NullValue]
      ELSE [res |-> insert_val(structType, st.res, v, idx),
            ops |-> st.ops \o <<Op("llvm.insertvalue", idx, v)>>,
            diags |-> d2,
            status |-> "ok"]

RECURSIVE packLoop(_, _, _, _, _)
packLoop(st, structType, resultVals, idx, ub) ==
  IF idx >= Len(resultVals) THEN st
  ELSE packLoop(packStep(st, structType, resultVals[idx + 1], idx, ub),
                structType, resultVals, idx + 1, ub)

\* the single-value requirement is not checked and the first value is returned
packLLElements_NoAssert(resultVals, type, ub) ==
  LET structType == convertType(type)
  IN  IF structType.k # "struct"
      THEN [res |-> IF resultVals = <<>> THEN Garbage ELSE resultVals[1],
            ops |-> <<>>, diags |-> <<>>, status |-> "ok"]
      ELSE LET elementTypes == structType.body
               d0 == IF Len(elementTypes) # Len(resultVals)
                     THEN <<SizeMismatch(Len(elementTypes), Len(resultVals))>>
                     ELSE <<>>
               st0 == [res |-> undef(structType),
                       ops |-> <<Op("llvm.mlir.undef", -1, NullValue)>>,
                       diags |-> d0,
                       status |-> "ok"]
           IN  packLoop(st0, structType, resultVals, 0, ub)

\* assert(resultVals.size() == 1) ends the process when it fails: every build
\* the repository configures is TritonRelBuildWithAsserts (python/compile.sh)
packLLElements(resultVals, type, ub) ==
  LET structType == convertType(type)
  IN  IF structType.k # "struct"
      THEN IF Len(resultVals) = 1
           THEN [res |-> resultVals[1], ops |-> <<>>, diags |-> <<>>, status |-> "ok"]
           ELSE [res |-> NullValue, ops |-> <<>>, diags |-> <<>>, status |-> "aborted"]
      ELSE LET elementTypes == structType.body
               d0 == IF Len(elementTypes) # Len(resultVals)
                     THEN <<SizeMismatch(Len(elementTypes), Len(resultVals))>>
                     ELSE <<>>
               st0 == [res |-> undef(structType),
                       ops |-> <<Op("llvm.mlir.undef", -1, NullValue)>>,
                       diags |-> d0,
                       status |-> "ok"]
           IN  packLoop(st0, structType, resultVals, 0, ub)

\* an already-lowered pointer is not recognised and is cast to a struct
unpackLLElements_NoLLVMPtr(llvmStruct) ==
  IF llvmStruct.k \in {"null", "garbage"}
  THEN [res |-> <<>>, ops |-> <<>>, status |-> "aborted"]
  ELSE IF isIntOrIndexOrFloat(llvmStruct.ty) \/ llvmStruct.ty.k \in {"ttptr"}
  THEN [res |-> <<llvmStruct>>, ops |-> <<>>, status |-> "ok"]
  ELSE IF llvmStruct.ty.k # "struct"
  THEN [res |-> <<>>, ops |-> <<>>, status |-> "aborted"]
  ELSE LET types == llvmStruct.ty.body
       IN  [res |-> [i \in 1..Len(types) |-> extract_val(types[i], llvmStruct, i - 1)],
            ops |-> [i \in 1..Len(types) |-> Op("llvm.extractvalue", i - 1, llvmStruct)],
            status |-> "ok"]

\* every field is read from field 0
unpackLLElements_FirstField(llvmStruct) ==
  IF llvmStruct.k \in {"null", "garbage"}
  THEN [res |-> <<>>, ops |-> <<>>, status |-> "aborted"]
  ELSE IF isIntOrIndexOrFloat(llvmStruct.ty) \/ llvmStruct.ty.k \in {"ttptr", "llvmptr"}
  THEN [res |-> <<llvmStruct>>, ops |-> <<>>, status |-> "ok"]
  ELSE IF llvmStruct.ty.k # "struct"
  THEN [res |-> <<>>, ops |-> <<>>, status |-> "aborted"]
  ELSE LET types == llvmStruct.ty.body
       IN  [res |-> [i \in 1..Len(types) |-> extract_val(types[i], llvmStruct, 0)],
            ops |-> [i \in 1..Len(types) |-> Op("llvm.extractvalue", 0, llvmStruct)],
            status |-> "ok"]

unpackLLElements(llvmStruct) ==
  IF llvmStruct.k \in {"null", "garbage"}
  THEN [res |-> <<>>, ops |-> <<>>, status |-> "aborted"]
  ELSE IF isIntOrIndexOrFloat(llvmStruct.ty) \/ llvmStruct.ty.k \in {"ttptr", "llvmptr"}
  THEN [res |-> <<llvmStruct>>, ops |-> <<>>, status |-> "ok"]
  ELSE IF llvmStruct.ty.k # "struct"
  THEN [res |-> <<>>, ops |-> <<>>, status |-> "aborted"]
  ELSE LET types == llvmStruct.ty.body
       IN  [res |-> [i \in 1..Len(types) |-> extract_val(types[i], llvmStruct, i - 1)],
            ops |-> [i \in 1..Len(types) |-> Op("llvm.extractvalue", i - 1, llvmStruct)],
            status |-> "ok"]

(***************************************************************************)
(* TritonGPUTypeConverter: logical tensor types get a default layout.      *)
(***************************************************************************)
\* BlockedEncodingAttr::get(context, shape, sizePerThread, order, numWarps):
\* the lanes of a warp lie along the fastest dimension of the order and the
\* numWarps warps along the slowest one
BlockedEncodingAttr_get(shape, sizePerThread, order, numWarps) ==
  LET rank == Len(shape)
  IN  Blocked(sizePerThread,
              [d \in 1..rank |-> IF d - 1 = order[1] THEN 32 ELSE 1],
              [d \in 1..rank |-> IF d - 1 = order[rank] THEN numWarps ELSE 1],
              order)

\* the default layout holds as many elements per thread as the dimension has
\* a layout a tensor type already carries is replaced by the default one
TritonGPUTypeConverter_convertType_Relayout(type, numWarps) ==
  IF type.k # "tensor" THEN type
  ELSE LET shape == type.shape
           rank == Len(shape)
           order == Iota(rank)
           sizePerThread == Fill(rank, 1)
           encoding == BlockedEncodingAttr_get(shape, sizePerThread, order, numWarps)
       IN  Tensor(shape, type.elt, encoding)

TritonGPUTypeConverter_convertType_WholeDim(type, numWarps) ==
  IF type.k # "tensor" THEN type
  ELSE IF type.enc # NoEncoding THEN type
  ELSE LET shape == type.shape
           rank == Len(shape)
           order == Iota(rank)
           sizePerThread == shape
           encoding == BlockedEncodingAttr_get(shape, sizePerThread, order, numWarps)
       IN  Tensor(shape, type.elt, encoding)

TritonGPUTypeConverter_convertType(type, numWarps) ==
  IF type.k # "tensor" THEN type
  ELSE IF type.enc # NoEncoding THEN type
  ELSE LET shape == type.shape
           rank == Len(shape)
           order == Iota(rank)
           sizePerThread == Fill(rank, 1)
           encoding == BlockedEncodingAttr_get(shape, sizePerThread, order, numWarps)
       IN  Tensor(shape, type.elt, encoding)

\* builder.create<triton::gpu::ConvertLayoutOp>(loc, tensorType, inputs)
ConvertLayoutOp(tensorType, inputs) ==
  [op |-> "triton_gpu.convert_layout", idx |-> -1, val |-> inputs, ty |-> tensorType]

\* cast.getResult()
getResult(cast) == [k |-> "result", ty |-> cast.ty, of |-> cast]

\* addArgumentMaterialization: llvm_unreachable ends the process
argumentMaterialization(tensorType, inputs) ==
  [res |-> NullValue, ops |-> <<>>, status |-> "aborted"]

\* old-typed uses are served by a cast, as the target materialization does
sourceMaterialization_Cast(tensorType, inputs) ==
  LET cast == ConvertLayoutOp(tensorType, inputs)
  IN  [res |-> getResult(cast), ops |-> <<cast>>, status |-> "ok"]

\* addSourceMaterialization: llvm_unreachable ends the process
sourceMaterialization(tensorType, inputs) ==
  [res |-> NullValue, ops |-> <<>>, status |-> "aborted"]

\* addTargetMaterialization: one ConvertLayoutOp, whose result is returned
targetMaterialization(tensorType, inputs) ==
  LET cast == ConvertLayoutOp(tensorType, inputs)
  IN  [res |-> getResult(cast), ops |-> <<cast>>, status |-> "ok"]

MaterializationKinds == {"argument", "source", "target"}

\* the hook the conversion driver calls for a kind of materialization
materialize(kind, tensorType, inputs) ==
  CASE kind = "argument" -> argumentMaterialization(tensorType, inputs)
    [] kind = "source" -> sourceMaterialization(tensorType, inputs)
    [] kind = "target" -> targetMaterialization(tensorType, inputs)

\* TypeConverter::isLegal(Type): the type converts to itself
isLegalType(type, numWarps) == TritonGPUTypeConverter_convertType(type, numWarps) = type

(***************************************************************************)
(* TritonGPUConversionTarget.  An operation is its name, its dialect, the  *)
(* types of its operands and results and of the block arguments of its     *)
(* regions.                                                                *)
(***************************************************************************)
Operation(dialect, name, operands, results, blockArgs) ==
  [dialect |-> dialect, name |-> name, operands |-> operands,
   results |-> results, blockArgs |-> blockArgs]

\* the block arguments of the regions are not looked at
dialectLegality_NoRegions(op, numWarps) ==
  /\ \A i \in 1..Len(op.operands) : isLegalType(op.operands[i], numWarps)
  /\ \A i \in 1..Len(op.results) : isLegalType(op.results[i], numWarps)

\* the callback of addDynamicallyLegalDialect
dialectLegality(op, numWarps) ==
  LET hasLegalRegions ==
        \A i \in 1..Len(op.blockArgs) : isLegalType(op.blockArgs[i], numWarps)
      isLegalOp ==
        /\ \A i \in 1..Len(op.operands) : isLegalType(op.operands[i], numWarps)
        /\ \A i \in 1..Len(op.results) : isLegalType(op.results[i], numWarps)
  IN  hasLegalRegions /\ isLegalOp

\* both operands need a layout, of any kind
dotOpLegality_AnyLayout(dotOp) ==
  LET aEncoding == dotOp.operands[1].enc
      bEncoding == dotOp.operands[2].enc
  IN  aEncoding # NoEncoding /\ bEncoding # NoEncoding

\* the callback of addDynamicallyLegalOp<triton::DotOp>
dotOpLegality(dotOp) ==
  LET aEncoding == dotOp.operands[1].enc
      bEncoding == dotOp.operands[2].enc
  IN  /\ aEncoding # NoEncoding /\ aEncoding.k = "dotop"
      /\ bEncoding # NoEncoding /\ bEncoding.k = "dotop"

\* what the constructor registers, in its order
Registrations ==
  << [kind |-> "dialect", names |-> {"triton_gpu"}, action |-> "Legal"],
     [kind |-> "op",
      names |-> {"scf.execute_region", "scf.parallel", "scf.reduce", "scf.reduce.return"},
      action |-> "Illegal"],
     [kind |-> "op", names |-> {"arith.cmpi", "arith.cmpf"}, action |-> "Illegal"],
     [kind |-> "dialect", names |-> {"arith", "math", "tt", "cf", "scf"},
      action |-> "DynamicDialect"],
     [kind |-> "op", names |-> {"tt.dot"}, action |-> "DynamicDotOp"] >>

\* the action the target holds for an operation: the last one registered for
\* its name, else the last one registered for its dialect, else none
Registered(kind, name) ==
  {i \in 1..Len(Registrations) :
     Registrations[i].kind = kind /\ name \in Registrations[i].names}

Last(S) == CHOOSE i \in S : \A j \in S : j <= i

\* the registration made last wins, whether for the name or for the dialect
getOpAction_LastRegistered(op) ==
  LET all == Registered("op", op.name) \cup Registered("dialect", op.dialect)
  IN  IF all # {} THEN Registrations[Last(all)].action ELSE "Unknown"

getOpAction(op) ==
  IF Registered("op", op.name) # {}
  THEN Registrations[Last(Registered("op", op.name))].action
  ELSE IF Registered("dialect", op.dialect) # {}
  THEN Registrations[Last(Registered("dialect", op.dialect))].action
  ELSE "Unknown"

\* ConversionTarget::isLegal(op) of the target the constructor sets up
isLegal(op, numWarps) ==
  LET action == getOpAction(op)
  IN  CASE action = "Legal" -> "legal"
        [] action = "Illegal" -> "illegal"
        [] action = "DynamicDialect" ->
             IF dialectLegality(op, numWarps) THEN "legal" ELSE "illegal"
        [] action = "DynamicDotOp" ->
             IF dotOpLegality(op) THEN "legal" ELSE "illegal"
        [] OTHER -> "unknown"

(***************************************************************************)
(* Result-type inference of the Triton operations.  The layout of a result *)
(* is asked of the dialect of the input's layout; its answer is an input.  *)
(***************************************************************************)
Succeeded(retEncoding) == [ok |-> TRUE, enc |-> retEncoding]
Failed == [ok |-> FALSE, enc |-> NoEncoding]

\* llvm::report_fatal_error(msg): the message goes to stderr, the process ends
FatalError(msg) == [msg |-> msg, loc |-> "none", fatal |-> TRUE]

\* emitOptionalError(loc, msg): an error at loc when there is one
OptionalError(hasLoc, msg) ==
  IF hasLoc THEN <<[msg |-> msg, loc |-> "op", fatal |-> FALSE]>> ELSE <<>>

Reverse(s) == [i \in 1..Len(s) |-> s[Len(s) + 1 - i]]

\* retShape.erase(retShape.begin() + axis)
Erase(s, axis) ==
  [i \in 1..(Len(s) - 1) |-> IF i <= axis THEN s[i] ELSE s[i + 1]]

\* retShape.insert(retShape.begin() + axis, 1)
Insert(s, axis, v) ==
  [i \in 1..(Len(s) + 1) |->
     IF i <= axis THEN s[i] ELSE IF i = axis + 1 THEN v ELSE s[i - 1]]

TransOp_inferReturnTypes(argTy, answer) ==
  LET retShape == Reverse(argTy.shape)
      retEltTy == argTy.elt
      argEncoding == argTy.enc
      retEncoding == IF argEncoding # NoEncoding THEN answer.enc ELSE NoEncoding
  IN  IF argEncoding # NoEncoding /\ ~answer.ok
      THEN [types |-> <<>>,
            diags |-> <<FatalError("failed to infer layout for ReduceOp")>>,
            status |-> "aborted"]
      ELSE [types |-> <<Tensor(retShape, retEltTy, retEncoding)>>,
            diags |-> <<>>, status |-> "ok"]

IndexRedOps == {"ARGMIN", "ARGMAX", "ARGUMIN", "ARGUMAX", "ARGFMIN", "ARGFMAX"}
RedOps == IndexRedOps \cup {"ADD", "MAX", "FMIN"}

\* the float arg-min and arg-max are taken for value reductions
ReduceOp_withIndex_NoFloat(redOp) ==
  redOp \in {"ARGMIN", "ARGMAX", "ARGUMIN", "ARGUMAX"}

ReduceOp_withIndex(redOp) ==
  \/ redOp = "ARGMIN" \/ redOp = "ARGMAX"
  \/ redOp = "ARGUMIN" \/ redOp = "ARGUMAX"
  \/ redOp = "ARGFMIN" \/ redOp = "ARGFMAX"

ReduceOp_inferReturnTypes(argTy, redOp, axis, answer) ==
  LET argEltTy == argTy.elt
      i32Ty == IntegerType(32)
      withIndex == ReduceOp_withIndex(redOp)
      retEltTy == IF withIndex THEN i32Ty ELSE argEltTy
      retShape == Erase(argTy.shape, axis)
      argEncoding == argTy.enc
      retEncoding == IF argEncoding # NoEncoding THEN answer.enc ELSE NoEncoding
  IN  IF retShape = <<>>
      THEN [types |-> <<retEltTy>>, diags |-> <<>>, status |-> "ok"]
      ELSE IF argEncoding # NoEncoding /\ ~answer.ok
      THEN [types |-> <<>>,
            diags |-> <<FatalError("failed to infer layout for ReduceOp")>>,
            status |-> "aborted"]
      ELSE [types |-> <<Tensor(retShape, retEltTy, retEncoding)>>,
            diags |-> <<>>, status |-> "ok"]

ExpandDimsOp_inferReturnTypes(argTy, axis, answer, hasLoc) ==
  LET retShape == Insert(argTy.shape, axis, 1)
      argEncoding == argTy.enc
      retEncoding == IF argEncoding # NoEncoding THEN answer.enc ELSE NoEncoding
      argEltTy == argTy.elt
  IN  IF argEncoding # NoEncoding /\ ~answer.ok
      THEN [types |-> <<>>,
            diags |-> OptionalError(hasLoc, "failed to infer layout for ExpandDimsOp"),
            status |-> "failure"]
      ELSE [types |-> <<Tensor(retShape, argEltTy, retEncoding)>>,
            diags |-> <<>>, status |-> "ok"]

(***************************************************************************)
(* LoadOp: the operands ptr, mask and other, the last two optional, and    *)
(* the operand_segment_sizes attribute that tells which ones are there.    *)
(***************************************************************************)
Present(v) == v.k # "null"
Bit(b) == IF b THEN 1 ELSE 0

\* LoadOp::build with ptr, mask and other; the two shorter overloads pass
\* mlir::Value() for what they leave out
LoadOp_build(ptr, mask, other) ==
  LET operands ==
        <<ptr>> \o (IF Present(mask)
                    THEN <<mask>> \o (IF Present(other) THEN <<other>> ELSE <<>>)
                    ELSE <<>>)
  IN  [operands |-> operands,
       operand_segment_sizes |-> <<1, Bit(Present(mask)), Bit(Present(other))>>,
       status |-> "ok"]

\* LoadOp::parse of a list of n operands: the types expected are those of
\* ptr, of mask from 2 operands on, of other from 3 on, and resolveOperands
\* fails when there are more or fewer operands than types
LoadOp_parse(allOperands) ==
  LET hasMask == IF Len(allOperands) >= 2 THEN 1 ELSE 0
      hasOther == IF Len(allOperands) >= 3 THEN 1 ELSE 0
      operandTypes == 1 + hasMask + hasOther
  IN  IF Len(allOperands) # operandTypes
      THEN [operands |-> <<>>, operand_segment_sizes |-> <<>>, status |-> "failure"]
      ELSE [operands |-> allOperands,
            operand_segment_sizes |-> <<1, hasMask, hasOther>>,
            status |-> "ok"]

(***************************************************************************)
(* Input domains.                                                          *)
(***************************************************************************)
UnitBlocked == Blocked(<<1>>, <<1>>, <<1>>, <<0>>)

Shapes == UNION {[1..r -> 1..MaxExtent] : r \in 1..MaxRank}

MatrixShapes == [1..2 -> 1..MaxExtent]

Orders(r) == {Iota(r), [i \in 1..r |-> r - i]}

\* s elements per thread in every dimension, or in the first one only
SizesPerThread(r) ==
  {Fill(r, s) : s \in 1..MaxSizePerThread}
  \cup {[d \in 1..r |-> IF d = 1 THEN s ELSE 1] : s \in 1..MaxSizePerThread}

\* thread and warp decompositions: everything on one lane, or two lanes
\* along the dimension d and two warps along the dimension after it
BlockedLayouts(r) ==
  {Blocked(spt, Fill(r, 1), Fill(r, 1), ord) :
     spt \in SizesPerThread(r), ord \in Orders(r)}
  \cup
  {Blocked(spt, [i \in 1..r |-> IF i = d THEN 2 ELSE 1],
                [i \in 1..r |-> IF i = (d % r) + 1 THEN 2 ELSE 1], Iota(r)) :
     spt \in SizesPerThread(r), d \in 1..r}

MmaLayouts == {Mma(1), Mma(2)}

SliceLayouts(r) ==
  {Slice(d, Blocked(Fill(r + 1, s), Fill(r + 1, 1), Fill(r + 1, 1), Iota(r + 1))) :
     d \in 0..r, s \in 1..MaxSizePerThread}

DotOperandLayouts ==
  {DotOperand(i, p) :
     i \in 0..1,
     p \in MmaLayouts \cup {Blocked(<<1, 1>>, <<1, 1>>, <<1, 1>>, <<0, 1>>)}}

\* tensor types that reach the LLVM lowering, every one with a layout:
\* matrices with the layouts of a matrix multiply, memory-resident tensors,
\* tensors distributed in blocks or slices of blocks, tensors of pointers
LoweringTensorTypes ==
  {Tensor(s, e, l) :
     s \in MatrixShapes, e \in ScalarTypes, l \in MmaLayouts \cup DotOperandLayouts}
  \cup
  {Tensor(s, e, Shared) : s \in Shapes, e \in ScalarTypes}
  \cup
  UNION {{Tensor(s, e, l) :
            e \in {f32, bf16},
            l \in BlockedLayouts(Len(s)) \cup SliceLayouts(Len(s))} : s \in Shapes}
  \cup
  {Tensor(s, TTPtr(e, 1), l) :
     s \in {<<1>>, <<2>>}, e \in {f32, bf16}, l \in {UnitBlocked, Shared}}

\* the types values are packed against: register-resident tensors of 1 to
\* MaxFields elements per thread, a memory-resident tensor, a scalar, a pointer
PackTargetTypes ==
  {Tensor(<<n>>, e, UnitBlocked) : n \in 1..MaxFields, e \in {f32, bf16}}
  \cup {Tensor(<<1>>, f32, Shared), i32, TTPtr(f32, 1)}

FieldTypes(llType) ==
  IF llType.k = "struct" THEN {llType.body[i] : i \in 1..Len(llType.body)}
  ELSE {llType}

ValueNames == {"a", "b"}

\* the values offered for a field: of a field's type, of another type, or null
PackValues(type) ==
  {Val(ty, n) : ty \in FieldTypes(convertType(type)), n \in ValueNames}
  \cup {Val(i64, "a"), NullValue}

\* aggregates of 1 to MaxFields fields, each field a named value of its type
StructValues ==
  UNION {{Aggregate(Struct(body), [i \in 1..n |-> Val(body[i], names[i])]) :
            body \in [1..n -> {i32, f32}], names \in [1..n -> ValueNames]} :
         n \in 1..MaxFields}

\* the values unpacked on their own: scalars, an index, pointers before and
\* after lowering, aggregates, a vector, the null Value
UnpackValues ==
  {Val(t, n) :
     t \in {i32, f16, IndexType, TTPtr(f32, 1), LLVMPtr(f32, 3), vec_ty(f32, 2)},
     n \in ValueNames}
  \cup StructValues \cup {NullValue}

WarpCounts == {1, 2, 4, 8}

\* types of the logical program: tensors without a layout and, once a
\* pattern has run, tensors with one; scalars and pointers
LogicalTypes ==
  UNION {{Tensor(s, e, l) :
            e \in {f32, bf16},
            l \in {NoEncoding, Shared, DotOperand(0, Mma(2)),
                   BlockedEncodingAttr_get(s, Fill(Len(s), 1), Iota(Len(s)), 4)}} :
         s \in Shapes}
  \cup {i32, f32, TTPtr(f32, 1)}

\* the types the operands of the checked operations have
DotOperandTypes ==
  {Tensor(<<2, 2>>, f32, l) :
     l \in {NoEncoding, DotOperand(0, Mma(2)), DotOperand(1, Mma(2)),
            BlockedEncodingAttr_get(<<2, 2>>, <<1, 1>>, <<0, 1>>, 4)}}

OperandTypes ==
  {Tensor(<<2, 2>>, f32, l) :
     l \in {NoEncoding, BlockedEncodingAttr_get(<<2, 2>>, <<1, 1>>, <<0, 1>>, 4)}}
  \cup {i32}

ResultTypes == {t \in OperandTypes : t.k = "tensor"}

\* the tensor types a materialization is asked for, and the values it is given
MaterializedTypes ==
  {Tensor(<<2, 2>>, f32, l) :
     l \in {Shared, DotOperand(0, Mma(2)),
            BlockedEncodingAttr_get(<<2, 2>>, <<1, 1>>, <<0, 1>>, 4)}}

MaterializedInputs == {Val(t, n) : t \in ResultTypes, n \in ValueNames}

OpNames ==
  {<<"tt", "tt.load">>, <<"tt", "tt.reduce">>, <<"arith", "arith.addf">>,
   <<"arith", "arith.cmpi">>, <<"arith", "arith.cmpf">>, <<"math", "math.exp">>,
   <<"cf", "cf.br">>, <<"scf", "scf.for">>, <<"scf", "scf.execute_region">>,
   <<"scf", "scf.parallel">>, <<"scf", "scf.reduce">>,
   <<"scf", "scf.reduce.return">>, <<"triton_gpu", "triton_gpu.convert_layout">>,
   <<"func", "func.return">>}

Seqs(S, n) == UNION {[1..m -> S] : m \in 0..n}

\* a matrix multiply has the operands a, b, c and one result; the others have
\* up to MaxOperands operands, at most one result and at most one block argument
Operations ==
  {Operation("tt", "tt.dot", <<a, b, c>>, <<c>>, <<>>) :
     a \in DotOperandTypes, b \in DotOperandTypes, c \in DotOperandTypes}
  \cup
  {Operation(n[1], n[2], os, rs, bs) :
     n \in OpNames, os \in Seqs(OperandTypes, MaxOperands),
     rs \in Seqs(ResultTypes, 1), bs \in Seqs(ResultTypes, 1)}

\* the tensors whose result type is inferred: extents that tell the
\* dimensions apart, with and without a layout
InferShapes == UNION {[1..r -> 2..MaxExtent] : r \in 1..MaxRank}

InferArgTypes ==
  UNION {{Tensor(s, e, l) :
            e \in {f32, i8},
            l \in {NoEncoding,
                   BlockedEncodingAttr_get(s, Fill(Len(s), 1), Iota(Len(s)), 4)}} :
         s \in InferShapes}

\* what the dialect of the layout answers: no layout can be inferred, or the
\* layout of the result
InferAnswers(argTy, axis) ==
  {Failed, Succeeded(Shared)}
  \cup (IF argTy.enc # NoEncoding THEN {Succeeded(Slice(axis, argTy.enc))} ELSE {})

\* the values a load is built of, and the longest operand list parsed
LoadPtrs == {Val(TTPtr(f32, 1), n) : n \in ValueNames}
LoadMasks == {NullValue} \cup {Val(i1, n) : n \in ValueNames}
LoadOthers == {NullValue} \cup {Val(f32, n) : n \in ValueNames}
MaxParsed == 4
ParsedOperands == {"%0", "%1"}

(***************************************************************************)
(* Actions.                                                                *)
(***************************************************************************)
Init ==
  /\ pc = "idle"
  /\ arg = NoEncoding
  /\ res = NullType
  /\ ops = <<>>
  /\ diags = <<>>
  /\ status = "ok"

\* the call has returned to the lowering pattern, which goes on to its next call
Return ==
  /\ pc # "idle"
  /\ pc' = "idle"
  /\ arg' = NoEncoding
  /\ res' = NullType
  /\ ops' = <<>>
  /\ diags' = <<>>
  /\ status' = "ok"

\* TritonGPUToLLVMTypeConverter::convertType on a ranked tensor type
ConvertTensor ==
  \E t \in LoweringTensorTypes :
    /\ pc = "idle"
    /\ pc' = "convertTensor"
    /\ arg' = t
    /\ res' = convertType(t)
    /\ ops' = <<>>
    /\ diags' = <<>>
    /\ status' = "ok"

\* packLLElements(loc, resultVals, rewriter, type)
Pack ==
  \E type \in PackTargetTypes, n \in 0..MaxVals, ub \in UBOutcomes :
    \E resultVals \in [1..n -> PackValues(type)] :
      LET r == packLLElements(resultVals, type, ub)
      IN  /\ pc = "idle"
          /\ pc' = "pack"
          /\ arg' = [type |-> type, vals |-> resultVals]
          /\ res' = r.res
          /\ ops' = r.ops
          /\ diags' = r.diags
          /\ status' = r.status

\* unpackLLElements(loc, llvmStruct, rewriter, type) on the value just packed
Unpack ==
  LET r == unpackLLElements(res)
  IN  /\ pc = "pack"
      /\ status = "ok"
      /\ pc' = "unpack"
      /\ arg' = [type |-> arg.type, vals |-> arg.vals, llvmStruct |-> res]
      /\ res' = r.res
      /\ ops' = ops \o r.ops
      /\ diags' = diags
      /\ status' = r.status

\* unpackLLElements(loc, llvmStruct, rewriter, type) on a value of the program
UnpackValue ==
  \E llvmStruct \in UnpackValues :
    LET r == unpackLLElements(llvmStruct)
    IN  /\ pc = "idle"
        /\ pc' = "unpackValue"
        /\ arg' = llvmStruct
        /\ res' = r.res
        /\ ops' = r.ops
        /\ diags' = <<>>
        /\ status' = r.status

\* packLLElements of the values just unpacked, against the type of the value
\* they were unpacked from
Repack ==
  \E ub \in UBOutcomes :
    LET r == packLLElements(res, arg.ty, ub)
    IN  /\ pc = "unpackValue"
        /\ status = "ok"
        /\ pc' = "repack"
        /\ arg' = [type |-> arg.ty, vals |-> res, llvmStruct |-> arg]
        /\ res' = r.res
        /\ ops' = ops \o r.ops
        /\ diags' = r.diags
        /\ status' = r.status

\* a materialization hook of TritonGPUTypeConverter called by the driver
Materialize ==
  \E kind \in MaterializationKinds, tensorType \in MaterializedTypes :
    \E inputs \in Seqs(MaterializedInputs, MaxOperands) :
      LET r == materialize(kind, tensorType, inputs)
      IN  /\ pc = "idle"
          /\ pc' = "materialize"
          /\ arg' = [kind |-> kind, tensorType |-> tensorType, inputs |-> inputs]
          /\ res' = r.res
          /\ ops' = r.ops
          /\ diags' = <<>>
          /\ status' = r.status

\* TritonGPUTypeConverter::convertType of a converter built with numWarps
AssignLayout ==
  \E type \in LogicalTypes, numWarps \in WarpCounts :
    /\ pc = "idle"
    /\ pc' = "assignLayout"
    /\ arg' = [type |-> type, numWarps |-> numWarps]
    /\ res' = TritonGPUTypeConverter_convertType(type, numWarps)
    /\ ops' = <<>>
    /\ diags' = <<>>
    /\ status' = "ok"

\* TritonGPUTypeConverter::convertType, by the same converter, of the type it
\* has just returned
Reassign ==
  /\ pc = "assignLayout"
  /\ pc' = "reassign"
  /\ arg' = [type |-> res, numWarps |-> arg.numWarps, first |-> arg.type]
  /\ res' = TritonGPUTypeConverter_convertType(res, arg.numWarps)
  /\ ops' = <<>>
  /\ diags' = <<>>
  /\ status' = "ok"

\* TransOp::inferReturnTypes on one ranked tensor operand
InferTrans ==
  \E argTy \in InferArgTypes :
    \E answer \in InferAnswers(argTy, 0) :
      LET r == TransOp_inferReturnTypes(argTy, answer)
      IN  /\ pc = "idle"
          /\ pc' = "inferTrans"
          /\ arg' = [type |-> argTy, answer |-> answer]
          /\ res' = r.types
          /\ ops' = <<>>
          /\ diags' = r.diags
          /\ status' = r.status

\* ReduceOp::inferReturnTypes on one ranked tensor operand, with the
\* attributes redOp and axis
InferReduce ==
  \E argTy \in InferArgTypes, redOp \in RedOps :
    \E axis \in 0..(Len(argTy.shape) - 1) :
      \E answer \in InferAnswers(argTy, axis) :
        LET r == ReduceOp_inferReturnTypes(argTy, redOp, axis, answer)
        IN  /\ pc = "idle"
            /\ pc' = "inferReduce"
            /\ arg' = [type |-> argTy, redOp |-> redOp, axis |-> axis,
                       answer |-> answer]
            /\ res' = r.types
            /\ ops' = <<>>
            /\ diags' = r.diags
            /\ status' = r.status

\* ExpandDimsOp::inferReturnTypes on one ranked tensor operand, with the
\* attribute axis and with or without a location
InferExpandDims ==
  \E argTy \in InferArgTypes, hasLoc \in BOOLEAN :
    \E axis \in 0..Len(argTy.shape) :
      \E answer \in InferAnswers(argTy, axis) :
        LET r == ExpandDimsOp_inferReturnTypes(argTy, axis, answer, hasLoc)
        IN  /\ pc = "idle"
            /\ pc' = "inferExpandDims"
            /\ arg' = [type |-> argTy, axis |-> axis, answer |-> answer,
                       hasLoc |-> hasLoc]
            /\ res' = r.types
            /\ ops' = <<>>
            /\ diags' = r.diags
            /\ status' = r.status

\* LoadOp::build
BuildLoad ==
  \E ptr \in LoadPtrs, mask \in LoadMasks, other \in LoadOthers :
    LET r == LoadOp_build(ptr, mask, other)
    IN  /\ pc = "idle"
        /\ pc' = "buildLoad"
        /\ arg' = [ptr |-> ptr, mask |-> mask, other |-> other]
        /\ res' = [operands |-> r.operands,
                   operand_segment_sizes |-> r.operand_segment_sizes]
        /\ ops' = <<>>
        /\ diags' = <<>>
        /\ status' = r.status

\* LoadOp::parse
ParseLoad ==
  \E allOperands \in Seqs(ParsedOperands, MaxParsed) :
    LET r == LoadOp_parse(allOperands)
    IN  /\ pc = "idle"
        /\ pc' = "parseLoad"
        /\ arg' = allOperands
        /\ res' = [operands |-> r.operands,
                   operand_segment_sizes |-> r.operand_segment_sizes]
        /\ ops' = <<>>
        /\ diags' = <<>>
        /\ status' = r.status

\* TritonGPUConversionTarget::isLegal(op)
CheckLegal ==
  \E op \in Operations, numWarps \in {4} :
    /\ pc = "idle"
    /\ pc' = "isLegal"
    /\ arg' = op
    /\ res' = isLegal(op, numWarps)
    /\ ops' = <<>>
    /\ diags' = <<>>
    /\ status' = "ok"

Next ==
  \/ ConvertTensor
  \/ AssignLayout
  \/ CheckLegal
  \/ Pack
  \/ Unpack
  \/ UnpackValue
  \/ Repack
  \/ Materialize
  \/ Reassign
  \/ InferTrans
  \/ InferReduce
  \/ InferExpandDims
  \/ BuildLoad
  \/ ParseLoad
  \/ Return

Spec == Init /\ [][Next]_vars

(***************************************************************************)
(* Properties of the tensor type conversion.                               *)
(***************************************************************************)
Converted == pc = "convertTensor"
DotOverMma == arg.enc.k = "dotop" /\ arg.enc.parent.k = "mma"
DotOverAmpere == Converted /\ DotOverMma /\ isAmpere(arg.enc.parent)
DotOverVolta == Converted /\ DotOverMma /\ isVolta(arg.enc.parent)
AllFields(t) == \A i \in 1..Len(res.body) : res.body[i] = t

\* C3 as stated: over an Ampere dot operand an 8-bit integer becomes a 4-wide
\* vector, a 16-bit element a 2-wide vector, a 32-bit element stays 1-wide
C3_AsStated ==
  DotOverAmpere =>
    \A i \in 1..Len(res.body) :
      /\ arg.elt = i8 => res.body[i] = vec_ty(i8, 4)
      /\ arg.elt.w = 16 => (res.body[i].k = "vec" /\ res.body[i].n = 2)
      /\ arg.elt.w = 32 => res.body[i] \in {arg.elt, vec_ty(arg.elt, 1)}

\* C3 amended: over an Ampere dot operand an 8-bit or 16-bit integer and
\* bfloat16 (stored as a 16-bit integer) become the 32-bit integer, f16 becomes
\* a 2-wide vector of f16, and a 32-bit element a 1-wide vector of itself
C3_AmpereElementType ==
  DotOverAmpere =>
    /\ arg.elt \in {i8, i16, bf16} => AllFields(i32)
    /\ arg.elt = f16 => AllFields(vec_ty(f16, 2))
    /\ arg.elt.w = 32 => AllFields(vec_ty(arg.elt, 1))

C3_Witness ==
  /\ DotOverAmpere /\ arg.elt = i8
  /\ Len(res.body) > 0 /\ res.body[1] = i32

\* C4: over an Ampere dot operand every integer element type narrower than 32
\* bits resolves to the 32-bit integer, not to a vector
C4_SubWordIntegerWidened ==
  (DotOverAmpere /\ arg.elt \in IntTypes /\ arg.elt.w < 32) =>
    (Len(res.body) > 0 /\ AllFields(i32))

C4_Witness ==
  /\ DotOverAmpere /\ arg.elt = i16
  /\ Len(res.body) > 0 /\ res.body[1] = i32

\* C5 as stated: over an Ampere dot operand every float of at most 32 bits
\* becomes a vector of 32 / bitwidth elements
C5_AsStated ==
  (DotOverAmpere /\ arg.elt \in FloatTypes /\ arg.elt.w <= 32) =>
    \A i \in 1..Len(res.body) :
      res.body[i].k = "vec" /\ res.body[i].n = 32 \div arg.elt.w

\* C5 amended: f32 becomes a 1-wide and f16 a 2-wide vector of itself, while
\* bfloat16 and the 8-bit floats, stored as integers, become the 32-bit integer
C5_AmpereFloatElementType ==
  (DotOverAmpere /\ arg.elt \in FloatTypes /\ arg.elt.w <= 32) =>
    /\ Len(res.body) > 0
    /\ arg.elt \in {f32, f16} => AllFields(vec_ty(arg.elt, 32 \div arg.elt.w))
    /\ arg.elt \in {bf16, f8E4M3FN, f8E5M2} => AllFields(i32)

C5_Witness ==
  /\ DotOverAmpere /\ arg.elt = f16
  /\ Len(res.body) > 0 /\ res.body[1] = vec_ty(f16, 2)

\* C6: over a Volta dot operand every element type resolves to a 2-wide vector
\* of the converted element type
C6_VoltaTwoWide ==
  DotOverVolta =>
    /\ Len(res.body) > 0
    /\ \A i \in 1..Len(res.body) :
         /\ res.body[i].k = "vec" /\ res.body[i].n = 2
         /\ res.body[i].elt =
              (CASE arg.elt \in {f8E4M3FN, f8E5M2} -> i8
                 [] arg.elt = bf16 -> i16
                 [] OTHER -> arg.elt)

C6_Witness ==
  /\ DotOverVolta /\ arg.elt = i64
  /\ Len(res.body) > 0 /\ res.body[1] = vec_ty(i64, 2)

\* C9: a rank-r tensor with a Shared layout converts to 1 + 2r fields, a
\* pointer to the resolved element type in address space 3, then 32-bit integers
C9_SharedAggregate ==
  (Converted /\ arg.enc.k = "shared") =>
    /\ res.k = "struct"
    /\ Len(res.body) = 1 + 2 * Len(arg.shape)
    /\ res.body[1] = LLVMPtr(convertType(arg.elt), 3)
    /\ \A i \in 2..Len(res.body) : res.body[i] = i32

C9_Witness ==
  /\ Converted /\ arg.enc.k = "shared" /\ arg.shape = <<3, 1>>
  /\ Len(res.body) = 5

\* C10: a tensor with a register-resident layout converts to getElemsPerThread
\* fields of one type, which outside a dot operand over MMA is the element type
\* with the 8-bit floats as i8 and bfloat16 as i16
C10_RegisterAggregate ==
  (Converted /\ arg.enc.k # "shared") =>
    /\ res.k = "struct"
    /\ Len(res.body) = getElemsPerThread(arg)
    /\ \A i, j \in 1..Len(res.body) : res.body[i] = res.body[j]
    /\ (~DotOverMma /\ arg.elt \in ScalarTypes) =>
         AllFields(CASE arg.elt \in {f8E4M3FN, f8E5M2} -> i8
                     [] arg.elt = bf16 -> i16
                     [] OTHER -> arg.elt)

C10_Witness ==
  /\ Converted /\ arg.enc.k = "blocked" /\ arg.elt = bf16
  /\ arg.shape = <<3, 1>> /\ arg.enc.sizePerThread = <<2, 1>>
  /\ arg.enc.threadsPerWarp = <<1, 1>>
  /\ res.body = <<i16, i16, i16, i16>>

(***************************************************************************)
(* Properties of packing and unpacking.                                    *)
(***************************************************************************)
PackedType == convertType(arg.type)
ToAggregate == PackedType.k = "struct"
WellTyped ==
  /\ Len(arg.vals) = Len(PackedType.body)
  /\ \A i \in 1..Len(arg.vals) :
       arg.vals[i].k = "val" /\ arg.vals[i].ty = PackedType.body[i]

\* C1: unpacking the aggregate packed from a well-typed sequence of as many
\* values as the aggregate has fields returns that sequence, in order
C1_UnpackPack ==
  (pc = "unpack" /\ ToAggregate /\ WellTyped) =>
    (status = "ok" /\ res = arg.vals)

C1_Witness ==
  /\ pc = "unpack" /\ ToAggregate
  /\ arg.vals = <<Val(i16, "a"), Val(i16, "b")>>
  /\ res = arg.vals

\* C2 as stated: packing a sequence whose length is not the field count emits
\* the field-count diagnostic and builds nothing: no undef, no insert, no
\* field index outside the aggregate
C2_AsStated ==
  (pc = "pack" /\ ToAggregate /\ Len(arg.vals) # Len(PackedType.body)) =>
    /\ \E i \in 1..Len(diags) :
         diags[i] = SizeMismatch(Len(PackedType.body), Len(arg.vals))
    /\ ops = <<>>

\* C11: unpacking a non-null value of a scalar, index, Triton pointer or
\* lowered pointer type returns that one value and creates no extract operation
IsExtract(o) == o.op = "llvm.extractvalue"
C11_UnpackScalar ==
  (pc = "unpackValue" /\ arg.k = "val"
     /\ arg.ty.k \in {"int", "index", "float", "ttptr", "llvmptr"}) =>
    /\ status = "ok"
    /\ res = <<arg>>
    /\ \A i \in 1..Len(ops) : ~IsExtract(ops[i])

C11_Witness ==
  /\ pc = "unpackValue" /\ arg = Val(LLVMPtr(f32, 3), "a")
  /\ res = <<arg>> /\ ops = <<>>

\* C18: packing the values unpacked from a well-typed aggregate against the
\* aggregate's type yields the aggregate again, field by field
C18_PackUnpack ==
  (pc = "repack" /\ arg.llvmStruct.k = "agg") =>
    /\ status = "ok"
    /\ diags = <<>>
    /\ res.k = "agg"
    /\ res.ty = arg.llvmStruct.ty
    /\ Len(res.fields) = Len(arg.llvmStruct.fields)
    /\ \A i \in 1..Len(res.fields) : res.fields[i] = arg.llvmStruct.fields[i]

C18_Witness ==
  /\ pc = "repack"
  /\ arg.llvmStruct = Aggregate(Struct(<<i32, f32>>), <<Val(i32, "a"), Val(f32, "b")>>)
  /\ res = arg.llvmStruct

\* C14 as stated: over an Ampere dot operand an element type that is neither
\* 8, 16 or 32 bits wide nor a sub-word integer ends the conversion with a
\* diagnostic; no null element type is returned and no aggregate is built of one
OutsideTable ==
  /\ getIntOrFloatBitWidth(arg.elt) \notin {8, 16, 32}
  /\ ~(arg.elt.k = "int" /\ getIntOrFloatBitWidth(arg.elt) < 32)
C14_AsStated ==
  (DotOverAmpere /\ OutsideTable) =>
    /\ status = "aborted"
    /\ diags # <<>>
    /\ getElementTypeForStruct(arg) # NullType
    /\ res.k = "struct" => \A i \in 1..Len(res.body) : res.body[i] # NullType

\* C17: under a Blocked layout the elements per thread times the threads per
\* warp times the warps per CTA cover the tensor, and are exactly its elements
\* when every extent is a multiple of the layout's tile in its dimension
Tile(layout, d) ==
  layout.sizePerThread[d] * layout.threadsPerWarp[d] * layout.warpsPerCTA[d]
Held(type) ==
  getElemsPerThread(type) * Prod(type.enc.threadsPerWarp) * Prod(type.enc.warpsPerCTA)
C17_BlockedCoverage ==
  (Converted /\ arg.enc.k = "blocked") =>
    /\ Len(arg.enc.sizePerThread) = Len(arg.shape)
    /\ Len(res.body) = getElemsPerThread(arg)
    /\ Held(arg) >= Prod(arg.shape)
    /\ (\A d \in 1..Len(arg.shape) : arg.shape[d] % Tile(arg.enc, d) = 0)
         => Held(arg) = Prod(arg.shape)

C17_Witness ==
  /\ Converted /\ arg.enc.k = "blocked" /\ arg.shape = <<2, 2>>
  /\ Prod(arg.enc.threadsPerWarp) = 2 /\ Prod(arg.enc.warpsPerCTA) = 2
  /\ \A d \in 1..2 : arg.shape[d] % Tile(arg.enc, d) = 0
  /\ Len(res.body) = 1 /\ Held(arg) = 4

\* C12: against a type that converts to no aggregate, pack of exactly one
\* value returns that value and creates nothing; pack of zero or of several
\* values is rejected and returns no value
C12_ScalarPack ==
  (pc = "pack" /\ ~ToAggregate) =>
    IF Len(arg.vals) = 1
    THEN status = "ok" /\ res = arg.vals[1] /\ ops = <<>> /\ diags = <<>>
    ELSE status = "aborted" /\ res = NullValue /\ ops = <<>>

C12_Witness ==
  /\ pc = "pack" /\ arg.type = i32
  /\ arg.vals = <<Val(i32, "a"), Val(i32, "b")>>
  /\ status = "aborted"

\* C13 as stated: a null value, or a value of another type than its field,
\* is reported, is never inserted, and no aggregate holding it is returned
Offending(i) ==
  /\ i <= Len(PackedType.body)
  /\ IF arg.vals[i].k = "null" THEN TRUE
     ELSE arg.vals[i].ty # PackedType.body[i]
C13_AsStated ==
  (pc = "pack" /\ ToAggregate) =>
    \A i \in 1..Len(arg.vals) :
      Offending(i) =>
        /\ \E j \in 1..Len(diags) :
             diags[j] = IF arg.vals[i].k = "null" THEN NullInsert(arg.vals[i])
                        ELSE InvalidElementType(PackedType.body[i], arg.vals[i].ty)
        /\ \A j \in 1..Len(ops) : ops[j] # Op("llvm.insertvalue", i - 1, arg.vals[i])
        /\ status = "ok" => res.fields[i] # arg.vals[i]

\* C15: target materialization creates one ConvertLayoutOp from the inputs to
\* the requested tensor type and returns its result; argument and source
\* materialization return no value and end the process
C15_Materializations ==
  pc = "materialize" =>
    IF arg.kind = "target"
    THEN /\ status = "ok"
         /\ ops = <<ConvertLayoutOp(arg.tensorType, arg.inputs)>>
         /\ res = getResult(ops[1])
         /\ res.ty = arg.tensorType
    ELSE /\ status = "aborted"
         /\ res = NullValue
         /\ ops = <<>>

C15_Witness ==
  /\ pc = "materialize" /\ arg.kind = "source"
  /\ Len(arg.inputs) = 1 /\ arg.inputs[1].ty.enc = NoEncoding
  /\ status = "aborted" /\ res = NullValue

(***************************************************************************)
(* Properties of result-type inference.                                    *)
(***************************************************************************)
Inferring == pc \in {"inferTrans", "inferReduce", "inferExpandDims"}

\* the dialect was asked for the layout of the result and had none
InferenceFailed ==
  /\ Inferring
  /\ arg.type.enc # NoEncoding
  /\ ~arg.answer.ok
  /\ pc = "inferReduce" => Len(arg.type.shape) > 1

\* C21 as stated: when the layout of the result of a transpose, a reduce or
\* an expand-dims cannot be inferred, inference returns failure, adds no
\* result type, reports at the location of the operation when it has one,
\* and does not end the process, the same for the three operations
C21_AsStated ==
  InferenceFailed =>
    /\ status = "failure"
    /\ res = <<>>
    /\ (pc # "inferExpandDims" \/ arg.hasLoc) =>
         \E i \in 1..Len(diags) : diags[i].loc = "op" /\ ~diags[i].fatal

\* C23: a reduce whose result type is inferred has exactly one result type:
\* of a rank-1 input the element type, otherwise the tensor of the input
\* shape without the extent at the axis; the element type is i32 exactly for
\* the six index-returning kinds and the input's otherwise; the result has a
\* layout only if the input has one
C23_ReduceResultType ==
  (pc = "inferReduce" /\ status = "ok") =>
    LET r == Len(arg.type.shape)
        a == arg.axis
        elt == IF arg.redOp \in IndexRedOps THEN i32 ELSE arg.type.elt
    IN  /\ Len(res) = 1
        /\ IF r = 1 THEN res[1] = elt
           ELSE /\ res[1].k = "tensor"
                /\ Len(res[1].shape) = r - 1
                /\ \A d \in 1..(r - 1) :
                     res[1].shape[d] = arg.type.shape[IF d <= a THEN d ELSE d + 1]
                /\ res[1].elt = elt
                /\ res[1].enc # NoEncoding => arg.type.enc # NoEncoding

C23_Witness ==
  /\ pc = "inferReduce" /\ status = "ok"
  /\ arg.type.shape = <<2, 3>> /\ arg.axis = 0 /\ arg.redOp = "ARGFMAX"
  /\ arg.type.elt = f32 /\ arg.type.enc # NoEncoding
  /\ res = <<Tensor(<<3>>, i32, Slice(0, arg.type.enc))>>

RECURSIVE Sum(_)
Sum(s) == IF s = <<>> THEN 0 ELSE Head(s) + Sum(Tail(s))

\* C22 as stated: the segment sizes LoadOp::build records sum to the number
\* of operands it added, the segment of mask is 1 exactly when mask was
\* added and the segment of other exactly when other was added, also when
\* other comes without a mask; LoadOp::parse records 1, then 1 from 2 operands
\* on, then 1 from 3 operands on
C22_AsStated ==
  /\ pc = "buildLoad" =>
       LET sizes == res.operand_segment_sizes
           added(v) == \E i \in 1..Len(res.operands) : res.operands[i] = v
       IN  /\ Sum(sizes) = Len(res.operands)
           /\ sizes[1] = 1
           /\ sizes[2] = 1 <=> (Present(arg.mask) /\ added(arg.mask))
           /\ sizes[3] = 1 <=> (Present(arg.other) /\ added(arg.other))
  /\ (pc = "parseLoad" /\ status = "ok") =>
       res.operand_segment_sizes =
         <<1, Bit(Len(arg) >= 2), Bit(Len(arg) >= 3)>>

(***************************************************************************)
(* Properties of the conversion target and of the default layout.          *)
(***************************************************************************)
HasLayout(t) == t.k = "tensor" => t.enc # NoEncoding

\* C7: a matrix multiply is legal exactly when its operands a and b both carry
\* a DotOperand layout, whatever layouts its types carry otherwise
C7_DotOpLegality ==
  (pc = "isLegal" /\ arg.name = "tt.dot") =>
    (res = "legal" <=>
       (arg.operands[1].enc.k = "dotop" /\ arg.operands[2].enc.k = "dotop"))

C7_Witness ==
  /\ pc = "isLegal" /\ arg.name = "tt.dot"
  /\ arg.operands[1].enc.k = "dotop" /\ arg.operands[2].enc.k = "blocked"
  /\ \A i \in 1..Len(arg.operands) : HasLayout(arg.operands[i])
  /\ res = "illegal"

\* C20: a converted tensor type carries a layout; a tensor type that carries a
\* layout and a type that is no tensor are returned unchanged; converting a
\* converted type returns it again, and no converter finds it lacking a layout
C20_Idempotent ==
  /\ pc = "assignLayout" =>
       /\ arg.type.k = "tensor" => (res.k = "tensor" /\ res.enc # NoEncoding)
       /\ (arg.type.k = "tensor" /\ arg.type.enc # NoEncoding) => res = arg.type
       /\ arg.type.k # "tensor" => res = arg.type
  /\ pc = "reassign" =>
       /\ res = arg.type
       /\ HasLayout(res)
       /\ \A n \in WarpCounts : isLegalType(res, n)

C20_Witness ==
  /\ pc = "reassign" /\ arg.first = Tensor(<<3, 2>>, f32, NoEncoding)
  /\ arg.type.enc.k = "blocked" /\ res = arg.type

AllTypes(op) ==
  {op.operands[i] : i \in 1..Len(op.operands)}
  \cup {op.results[i] : i \in 1..Len(op.results)}
  \cup {op.blockArgs[i] : i \in 1..Len(op.blockArgs)}

DenyList ==
  {"scf.execute_region", "scf.parallel", "scf.reduce", "scf.reduce.return",
   "arith.cmpi", "arith.cmpf"}

\* C16: a deny-listed operation is illegal whatever its types are, also when
\* every operand, result and block-argument type carries a layout
C16_DenyListed ==
  (pc = "isLegal" /\ arg.name \in DenyList) => res = "illegal"

C16_Witness ==
  /\ pc = "isLegal" /\ arg.name = "arith.cmpi"
  /\ Len(arg.operands) = 1 /\ Len(arg.results) = 1 /\ Len(arg.blockArgs) = 1
  /\ \A t \in AllTypes(arg) : t.k = "tensor" /\ HasLayout(t)
  /\ res = "illegal"

\* C19: an operation of the arith, math, tt, cf or scf dialect that is neither
\* deny-listed nor a matrix multiply is legal exactly when every tensor type
\* among its operands, results and block arguments carries a layout
C19_DialectLegality ==
  (/\ pc = "isLegal"
   /\ arg.dialect \in {"arith", "math", "tt", "cf", "scf"}
   /\ arg.name \notin DenyList \cup {"tt.dot"}) =>
    (res = "legal" <=> \A t \in AllTypes(arg) : HasLayout(t))

C19_Witness ==
  /\ pc = "isLegal" /\ arg.name = "scf.for"
  /\ Len(arg.operands) = 1 /\ HasLayout(arg.operands[1])
  /\ Len(arg.results) = 1 /\ HasLayout(arg.results[1])
  /\ Len(arg.blockArgs) = 1 /\ ~HasLayout(arg.blockArgs[1])
  /\ res = "illegal"

\* C8: a tensor type without a layout converts, with numWarps = n, to the same
\* shape and element type with a Blocked layout of one element per thread in
\* every dimension, the identity order and a warps-per-CTA product of n
C8_DefaultLayout ==
  (pc = "assignLayout" /\ arg.type.k = "tensor" /\ arg.type.enc = NoEncoding) =>
    LET rank == Len(arg.type.shape)
    IN  /\ res.k = "tensor"
        /\ res.shape = arg.type.shape
        /\ res.elt = arg.type.elt
        /\ res.enc.k = "blocked"
        /\ res.enc.sizePerThread = [d \in 1..rank |-> 1]
        /\ res.enc.order = [d \in 1..rank |-> d - 1]
        /\ Prod(res.enc.warpsPerCTA) = arg.numWarps

C8_Witness ==
  /\ pc = "assignLayout" /\ arg.type = Tensor(<<3, 2>>, f32, NoEncoding)
  /\ arg.numWarps = 4
  /\ res.enc.k = "blocked" /\ Prod(res.enc.warpsPerCTA) = 4

====
